---- MODULE Spec2Model ----
(***************************************************************************)
(* A model of the EZone integration: the device API client (ezone_api),    *)
(* the polling coordinator (EZoneDataUpdateCoordinator), the config-entry  *)
(* setup and the command methods of the entity adapters.                   *)
(*                                                                         *)
(* Python values are tagged records: a str is [k |-> "str", s |-> chars],  *)
(* a dict is [k |-> "dict", d |-> <<[key, val], ...>>] in insertion order, *)
(* a list is [k |-> "list", l |-> <<...>>], an int is [k |-> "int", n].   *)
(***************************************************************************)
EXTENDS Integers, Sequences, FiniteSets, TLC

(* ---- bounds ---- *)
MaxRetry == 3          \* largest attempt budget explored (self.retry and the retry argument)
MaxZones == 2          \* largest numberOfZones the controller advertises
MaxFaults == 1         \* failed responses of the controller while the integration runs
MaxChildren == 3       \* most child elements under the root of a document to normalise

(* ---- program constants ---- *)
DefaultRetry == 5      \* the default of ezone_api's retry parameter

(* ---- python values ---- *)
PyStr(s)  == [k |-> "str",  s |-> s]
PyDict(d) == [k |-> "dict", d |-> d]
PyList(l) == [k |-> "list", l |-> l]
PyInt(n)  == [k |-> "int",  n |-> n]

EmptyDict == PyDict(<<>>)

IsDict(v) == v.k = "dict"
IsStr(v)  == v.k = "str"
IsList(v) == v.k = "list"

Keys(v) == {v.d[i].key : i \in 1..Len(v.d)}

\* dict.get(key, default) on a dict value
Get(v, key, default) ==
    IF key \in Keys(v)
    THEN (v.d[CHOOSE i \in 1..Len(v.d) : v.d[i].key = key]).val
    ELSE default

\* dict[key] = val : replaces in place, or appends a new key
SetItem(v, key, val) ==
    IF key \in Keys(v)
    THEN PyDict([i \in 1..Len(v.d) |->
                 IF v.d[i].key = key THEN [key |-> key, val |-> val] ELSE v.d[i]])
    ELSE PyDict(Append(v.d, [key |-> key, val |-> val]))

(* ---- text ---- *)
Whitespace == {" "}
Digits == <<"0", "1", "2", "3", "4", "5", "6", "7", "8", "9">>

RECURSIVE lstrip(_)
lstrip(s) == IF s # <<>> /\ Head(s) \in Whitespace THEN lstrip(Tail(s)) ELSE s

RECURSIVE rstrip(_)
rstrip(s) ==
    IF s # <<>> /\ s[Len(s)] \in Whitespace THEN rstrip(SubSeq(s, 1, Len(s) - 1)) ELSE s

\* str.strip()
strip(s) == rstrip(lstrip(s))

IsDigit(c) == \E i \in 1..10 : Digits[i] = c
DigitVal(c) == (CHOOSE i \in 1..10 : Digits[i] = c) - 1

\* int(x) succeeds on a str of decimal digits (surrounding whitespace allowed)
CanInt(v) ==
    \/ v.k = "int"
    \/ /\ v.k = "str"
       /\ strip(v.s) # <<>>
       /\ \A i \in 1..Len(strip(v.s)) : IsDigit(strip(v.s)[i])

RECURSIVE DecimalVal(_)
DecimalVal(s) ==
    IF s = <<>> THEN 0 ELSE 10 * DecimalVal(SubSeq(s, 1, Len(s) - 1)) + DigitVal(s[Len(s)])

ToInt(v) == IF v.k = "int" THEN v.n ELSE DecimalVal(strip(v.s))

(* ---- XML documents ---- *)
Elem(tag, text, children) == [tag |-> tag, text |-> text, children |-> children]

RECURSIVE xml_to_dict(_)
RECURSIVE xml_children(_, _, _)

\* mutant: a repeated tag puts the later occurrence in front of the earlier ones
RECURSIVE xml_children_Prepend(_, _, _)
xml_children_Prepend(element, i, result) ==
    IF i > Len(element.children) THEN result
    ELSE LET child == element.children[i]
             child_data == xml_to_dict(child)
             cur == Get(result, child.tag, EmptyDict)
         IN  xml_children_Prepend(element, i + 1,
                IF child.tag \in Keys(result)
                THEN SetItem(result, child.tag,
                        PyList(<<child_data>> \o (IF IsList(cur) THEN cur.l ELSE <<cur>>)))
                ELSE SetItem(result, child.tag, child_data))

\* the "for child in element" loop of _xml_to_dict, from child i on
xml_children(element, i, result) ==
    IF i > Len(element.children) THEN result
    ELSE LET child == element.children[i]
             child_data == xml_to_dict(child)
             cur == Get(result, child.tag, EmptyDict)
         IN  xml_children(element, i + 1,
                IF child.tag \in Keys(result)
                THEN SetItem(result, child.tag,
                        PyList(Append(IF IsList(cur) THEN cur.l ELSE <<cur>>, child_data)))
                ELSE SetItem(result, child.tag, child_data))

\* mutant: non-empty text wins even when the element has children
xml_to_dict_TextWins(element) ==
    IF strip(element.text) # <<>>
    THEN PyStr(strip(element.text))
    ELSE xml_children(element, 1, EmptyDict)

\* "if element.text and element.text.strip() and len(element) == 0: return
\*  element.text.strip()", else the mapping built from the children
xml_to_dict(element) ==
    IF strip(element.text) # <<>> /\ Len(element.children) = 0
    THEN PyStr(strip(element.text))
    ELSE xml_children(element, 1, EmptyDict)

\* ET.fromstring(xml_data) raises ParseError exactly on a body that is not well formed
Malformed == [wellformed |-> FALSE]
Document(root) == [wellformed |-> TRUE, root |-> root]

\* body of /getSystemData: <iZS10.3><system><unitcontrol>...</unitcontrol></system></iZS10.3>
SystemXml(onoff, unitcontrol_extra) ==
    Document(Elem("iZS10.3", <<>>,
        <<Elem("system", <<>>,
            <<Elem("unitcontrol", <<>>,
                <<Elem("airconOnOff", onoff, <<>>)>> \o unitcontrol_extra)>>)>>))

NumberOfZones(text) == <<Elem("numberOfZones", text, <<>>)>>

\* body of /getZoneData
ZoneXml(setting, percent) ==
    Document(Elem("iZS10.3", <<>>,
        <<Elem("setting", setting, <<>>), Elem("userPercentSetting", percent, <<>>)>>))

\* a well-formed document whose root is a bare text element
TextXml == Document(Elem("html", <<"x">>, <<>>))

SystemBodies ==
    {SystemXml(<<"1">>, NumberOfZones(<<Digits[n + 1]>>)) : n \in 0..MaxZones}
    \cup {SystemXml(<<"0">>, NumberOfZones(<<" ", "1", " ">>)),
          SystemXml(<<"1">>, NumberOfZones(<<"x">>)),
          SystemXml(<<"1">>, <<>>),
          TextXml, Malformed}

ZoneBodies ==
    {ZoneXml(<<"1">>, <<"5", "0">>), ZoneXml(<<"0">>, <<"5", "0">>), TextXml, Malformed}

(* ---- transport: what one session.get(...) can produce ---- *)
\* ClientConnectorError and ServerDisconnectedError are subclasses of ClientError
\* and are caught, with ConnectionResetError, by one except clause that keeps the exception
RetryableErrors == {"ClientError", "TimeoutError"}

Failure(kind) == [kind |-> kind]
Response(status, body) == [kind |-> "response", status |-> status, body |-> body]

Responses(bodies) ==
    {Failure(e) : e \in RetryableErrors}
    \cup {Response(500, Malformed)}
    \cup {Response(200, b) : b \in bodies}

(* ---- state ---- *)
VARIABLES
    self_retry,     \* ezone_api.retry
    \* frame of the running async_get_system_data / async_get_zone_data
    rpc,            \* "idle", "get" (about to issue the GET), "sleep", "returned", "raised"
    rop,            \* "none", "system", "zone"
    zone,           \* the zone argument (0 for the system read)
    retry,          \* local retry = retry or self.retry
    count,          \* local count
    error,          \* local error
    rret,           \* what the read returned or raised
    reqs,           \* history: the GET requests the current read has issued, with their outcomes
    caller,         \* who awaits the read: "none", "direct", "all"
    \* frame of the running async_get_all_data
    apc,            \* "idle", "system", "zones", "returned", "raised"
    system_data,    \* local system_data
    num_zones,      \* local num_zones
    zone_num,       \* loop variable of "for zone_num in range(1, num_zones + 1)"
    zones_data,     \* local zones_data
    aret,           \* what async_get_all_data returned or raised
    alog,           \* history, kept for a direct caller: one entry per read awaited so far
    acaller,        \* who awaits async_get_all_data: "none", "direct", "refresh"
    \* frame of the running write operation
    wpc,            \* "idle", "get" (about to issue the GET), "returned", "raised"
    wreq,           \* the request of the write: path and params
    wret,           \* what the write returned or raised
    wreqs,          \* history: the GET requests the current write has issued, with their outcomes
    wcaller,        \* who awaits the write: "none", "direct", "command"
    faults,         \* failed responses the controller has given the running integration
    \* the config entry (async_setup_entry)
    spc,            \* "not_loaded", "first_refresh", "forward", "loaded", "not_ready"
    hass_data,      \* hass.data[DOMAIN] holds the entry's coordinator and api
    platforms,      \* the platforms the entry has been forwarded to
    entities,       \* the zones that got cover and climate entities
    \* the coordinator (EZoneDataUpdateCoordinator)
    data,           \* coordinator.data
    last_update_success,
    fpc,            \* "idle", "updating" (awaiting _async_update_data)
    fkind,          \* what started the refresh: "first", "interval", "request", "timer"
    cooldown,       \* the request debouncer's cooldown timer is pending
    execute_at_end, \* a request arrived during the cooldown
    \* frame of the running command method of an entity
    cpc,            \* "idle", "write", "refresh" (awaiting either), "done", "raised"
    cmd,            \* the command method and its arguments
    cprog,          \* the statements of the method still to run
    ctrace          \* history: the writes that returned and the refresh requests made

readVars == <<rpc, rop, zone, retry, count, error, rret, reqs, caller>>
allVars == <<apc, system_data, num_zones, zone_num, zones_data, aret, alog, acaller>>
writeVars == <<wpc, wreq, wret, wreqs, wcaller>>
apiVars == <<self_retry, readVars, allVars, writeVars>>
entryVars == <<spc, hass_data, platforms, entities>>
coordVars == <<data, last_update_success, fpc, fkind, cooldown, execute_at_end>>
cmdVars == <<cpc, cmd, cprog, ctrace>>
hassVars == <<entryVars, coordVars, cmdVars>>

\* documents that exercise the normaliser: a root with some text and up to MaxChildren
\* children, which are leaves, empty elements or parents themselves
XmlTexts == {<<>>, <<" ">>, <<"x">>, <<" ", "x", " ", "y", " ">>}

XmlChildren ==
    {Elem("a", <<"1">>, <<>>), Elem("a", <<" ", "2">>, <<>>), Elem("b", <<"1">>, <<>>),
     Elem("a", <<>>, <<>>),
     Elem("a", <<>>, <<Elem("c", <<"3">>, <<>>)>>),
     Elem("b", <<"t">>, <<Elem("c", <<"3">>, <<>>), Elem("c", <<"4">>, <<>>)>>)}

XmlRoots ==
    {Elem("r", text, children) :
        text \in XmlTexts, children \in UNION {[1..k -> XmlChildren] : k \in 0..MaxChildren}}

NoResult == [st |-> "none"]
Returned(v) == [st |-> "returned", val |-> v]
Raised(e) == [st |-> "raised", exc |-> e]

\* ApiError(f"No valid response after {count} failed attempt(s). Last error was: {error}")
ReadError(c, e) == [type |-> "ApiError", msg |-> "No valid response", count |-> c, error |-> e]

(* ---- parsing ---- *)
Ok(v) == [ok |-> TRUE, val |-> v]
Throws(e) == [ok |-> FALSE, exc |-> e]

parse_system_xml(xml_data) ==
    IF ~xml_data.wellformed THEN Throws("ApiError: Invalid XML response")
    ELSE Ok(xml_to_dict(xml_data.root))

parse_zone_xml(xml_data, zn) ==
    IF ~xml_data.wellformed THEN Throws("ApiError: Invalid XML response")
    ELSE LET zone_data == xml_to_dict(xml_data.root)
         IN  IF IsDict(zone_data)
             THEN Ok(SetItem(zone_data, "zone_number", PyInt(zn)))
             ELSE Throws("TypeError")     \* item assignment on a str

(* ---- the controller ---- *)
\* the controller fails at most MaxFaults times while the integration runs
CountFault(counted, failed) ==
    IF counted /\ failed
    THEN faults < MaxFaults /\ faults' = faults + 1
    ELSE faults' = faults

(* ---- frames: entry and release of the coroutines ---- *)
Path(op) == IF op = "system" THEN "/getSystemData" ELSE "/getZoneData"
Bodies(op) == IF op = "system" THEN SystemBodies ELSE ZoneBodies
\* the parse of every body the controller sends, computed once
ParsedSystem == [b \in SystemBodies |-> parse_system_xml(b)]
ParsedZone == [b \in ZoneBodies |-> [z \in 1..MaxZones |-> parse_zone_xml(b, z)]]
Parse(op, xml_data, z) ==
    IF op = "system"
    THEN IF xml_data \in SystemBodies THEN ParsedSystem[xml_data]
         ELSE parse_system_xml(xml_data)
    ELSE IF xml_data \in ZoneBodies /\ z \in 1..MaxZones THEN ParsedZone[xml_data][z]
         ELSE parse_zone_xml(xml_data, z)

\* entry of a read up to its first GET: retry = retry or self.retry (None and 0 are both
\* falsy), count = 0, error = None; retry >= 1, so the loop is entered
BeginRead(op, z, r, who) ==
    /\ rpc' = "get"
    /\ rop' = op
    /\ zone' = z
    /\ retry' = (IF r # 0 THEN r ELSE self_retry)
    /\ count' = 0
    /\ error' = "None"
    /\ rret' = NoResult
    /\ reqs' = <<>>
    /\ caller' = who

\* the frame of a read nobody awaits any more
ReadIdle ==
    /\ rpc' = "idle"
    /\ rop' = "none"
    /\ zone' = 0
    /\ retry' = 0
    /\ count' = 0
    /\ error' = "None"
    /\ rret' = NoResult
    /\ reqs' = <<>>
    /\ caller' = "none"

\* entry of async_get_all_data up to the first GET of "await self.async_get_system_data()"
BeginAll(who) ==
    /\ apc = "idle" /\ rpc = "idle"
    /\ apc' = "system"
    /\ acaller' = who
    /\ system_data' = EmptyDict
    /\ num_zones' = 0
    /\ zone_num' = 0
    /\ zones_data' = EmptyDict
    /\ aret' = NoResult
    /\ alog' = <<>>
    /\ BeginRead("system", 0, 0, "all")

\* the frame of async_get_all_data once the coordinator has taken its outcome
AllIdle(ares) ==
    /\ apc' = "idle"
    /\ system_data' = EmptyDict
    /\ num_zones' = 0
    /\ zone_num' = 0
    /\ zones_data' = EmptyDict
    /\ aret' = ares
    /\ alog' = <<>>
    /\ acaller' = "none"

\* a refresh starts: the coordinator awaits _async_update_data, which awaits
\* api.async_get_all_data()
BeginRefresh(kind) ==
    /\ fpc = "idle"
    /\ fpc' = "updating"
    /\ fkind' = kind
    /\ BeginAll("refresh")

(* ---- write operations ---- *)
Request(path, params) == [path |-> path, params |-> params]

async_set_system_data(params) == Request("/setSystemData", params)
\* zone_params = {"zone": zone, **params}
async_set_zone_data(z, params) == Request("/setZoneData", <<[key |-> "zone", val |-> z]>> \o params)
async_change_system_name(name) == Request("/changeName", <<[key |-> "name", val |-> name]>>)

async_set_aircon_on_off(state) ==
    async_set_system_data(<<[key |-> "airconOnOff", val |-> IF state THEN 1 ELSE 0]>>)
async_set_mode(mode) == async_set_system_data(<<[key |-> "mode", val |-> mode]>>)
async_set_fan_speed(speed) == async_set_system_data(<<[key |-> "fanSpeed", val |-> speed]>>)
async_set_target_temp(temp) ==
    async_set_system_data(<<[key |-> "centralDesiredTemp", val |-> temp]>>)
async_set_zone_setting(z, setting) ==
    async_set_zone_data(z, <<[key |-> "zoneSetting", val |-> IF setting THEN 1 ELSE 0]>>)
\* mutant: the percent is sent without zoneSetting=1
async_set_zone_percent_Alone(z, percent) ==
    async_set_zone_data(z, <<[key |-> "userPercentSetting", val |-> percent]>>)

async_set_zone_percent(z, percent) ==
    async_set_zone_data(z, <<[key |-> "userPercentSetting", val |-> percent],
                             [key |-> "zoneSetting", val |-> 1]>>)
async_set_zone_name(z, name) == async_set_zone_data(z, <<[key |-> "name", val |-> name]>>)

\* an optional argument (-1: None) adds its parameter only when it is given
Optional(key, val) == IF val # -1 THEN <<[key |-> key, val |-> val]>> ELSE <<>>

async_set_zone_timer(start_hour, start_min, end_hour, end_min, schedule_status) ==
    Request("/setZoneTimer",
            <<[key |-> "scheduleStatus", val |-> schedule_status]>>
            \o Optional("startTimeHours", start_hour)
            \o Optional("startTimeMinutes", start_min)
            \o Optional("endTimeHours", end_hour)
            \o Optional("endTimeMinutes", end_min))

WriteRequests ==
    {async_set_aircon_on_off(b) : b \in BOOLEAN}
    \cup {async_set_mode(m) : m \in 1..3}
    \cup {async_set_fan_speed(1), async_set_target_temp(24)}
    \cup {async_set_zone_setting(1, b) : b \in BOOLEAN}
    \cup {async_set_zone_percent(1, 50), async_set_zone_name(1, "Living"),
          async_change_system_name("ezone")}
    \cup {async_set_zone_timer(h, 30, -1, m, 1) : h \in {-1, 7}, m \in {-1, 0}}

WriteResponses ==
    {Failure(e) : e \in RetryableErrors} \cup {Response(500, ""), Response(200, "ack")}

\* ApiError(f"Failed to set ...: {err}")
WriteError(err) == [type |-> "ApiError", msg |-> "Failed to set", cause |-> err]

\* mutant: a write that failed in transport is issued again
WriteOutcome_Retry(resp) ==
    IF resp.kind # "response" THEN [pc |-> "get", ret |-> NoResult]
    ELSE IF resp.status # 200 THEN [pc |-> "raised", ret |-> Raised(WriteError("AssertionError"))]
    ELSE [pc |-> "returned", ret |-> Returned(resp.body)]

\* the write's "try: ... assert resp.status == 200; return await resp.text()
\*              except Exception as err: raise ApiError(...)"
WriteOutcome(resp) ==
    IF resp.kind # "response" THEN [pc |-> "raised", ret |-> Raised(WriteError(resp.kind))]
    ELSE IF resp.status # 200 THEN [pc |-> "raised", ret |-> Raised(WriteError("AssertionError"))]
    ELSE [pc |-> "returned", ret |-> Returned(resp.body)]

\* entry of a write up to its GET
BeginWrite(req, who) ==
    /\ wpc' = "get"
    /\ wreq' = req
    /\ wret' = NoResult
    /\ wreqs' = <<>>
    /\ wcaller' = who

NoRequest == Request("", <<>>)

WriteIdle ==
    /\ wpc' = "idle"
    /\ wreq' = NoRequest
    /\ wret' = NoResult
    /\ wreqs' = <<>>
    /\ wcaller' = "none"

(* ---- the integration before its config entry is set up ---- *)
\* coordinator.data is None until the first successful refresh
NoneData == [k |-> "none"]
NoCommand == [method |-> "none"]

InitHass ==
    /\ spc = "not_loaded" /\ hass_data = FALSE /\ platforms = {} /\ entities = {}
    /\ data = NoneData /\ last_update_success = TRUE
    /\ fpc = "idle" /\ fkind = "none" /\ cooldown = FALSE /\ execute_at_end = FALSE
    /\ cpc = "idle" /\ cmd = NoCommand /\ cprog = <<>> /\ ctrace = <<>>

(* ---- the coordinator ---- *)
PLATFORMS == {"climate", "cover", "sensor"}

\* mutant: _async_update_data swallows the ApiError and returns an empty result
async_update_data_Swallow(res) ==
    IF res.st = "raised" THEN Ok(EmptyDict) ELSE Ok(res.val)

\* EZoneDataUpdateCoordinator._async_update_data, given what async_get_all_data did
async_update_data(res) ==
    IF res.st = "raised" THEN Throws([type |-> "UpdateFailed", cause |-> res.exc])
    ELSE Ok(res.val)

\* mutant: setup goes on with async_refresh(), which never raises
first_refresh_NeverRaises(success) == Ok(success)

\* coordinator.async_config_entry_first_refresh(): raises ConfigEntryNotReady unless the
\* refresh succeeded
first_refresh(success) ==
    IF success THEN Ok(success) ELSE Throws("ConfigEntryNotReady")

\* the zones of a snapshot, as the platforms iterate them: int(zone_num) of each key
ZonesOf(snapshot) ==
    {z \in 1..MaxZones : ToString(z) \in Keys(Get(snapshot, "zones", EmptyDict))}

\* _async_update_data has returned or raised: the coordinator keeps the new data or marks
\* the update failed, and whoever awaited the refresh goes on: async_setup_entry with
\* "hass.data[DOMAIN][entry.entry_id] = {...}" or by leaving with ConfigEntryNotReady, a
\* command method by returning (the refresh request is its last statement)
RefreshDone(ares) ==
    /\ LET u == async_update_data(ares)
           fr == first_refresh(u.ok)
       IN  /\ data' = (IF u.ok THEN u.val ELSE data)
           /\ last_update_success' = u.ok
           /\ IF fkind = "first"
              THEN /\ spc' = (IF fr.ok THEN "forward" ELSE "not_ready")
                   /\ hass_data' = (IF fr.ok THEN TRUE ELSE hass_data)
              ELSE UNCHANGED <<spc, hass_data>>
    /\ fpc' = "idle"
    /\ fkind' = "none"
    /\ cooldown' = (IF fkind \in {"request", "timer"} THEN TRUE ELSE cooldown)
    /\ cpc' = (IF fkind = "request" THEN "done" ELSE cpc)
    /\ UNCHANGED <<platforms, entities, execute_at_end, cmd, cprog, ctrace>>

(* ---- what the cover entity of a zone reads from the snapshot ---- *)
\* EZoneZoneCover.zone_data
zone_data(snapshot, z) ==
    Get(Get(snapshot, "zones", EmptyDict), ToString(z), EmptyDict)

\* EZoneZoneCover.current_cover_position: int(userPercentSetting), and on ValueError or
\* TypeError 100 or 0 from the setting
current_cover_position(snapshot, z) ==
    LET percent_str == Get(zone_data(snapshot, z), "userPercentSetting", PyStr(<<"0">>))
        setting == Get(zone_data(snapshot, z), "setting", PyStr(<<"0">>))
    IN  IF CanInt(percent_str) THEN ToInt(percent_str)
        ELSE IF setting = PyStr(<<"1">>) THEN 100 ELSE 0

\* mutant: the cover counts as closed when its position reads 0
is_closed_ByPosition(snapshot, z) == current_cover_position(snapshot, z) = 0

is_closed(snapshot, z) ==
    Get(zone_data(snapshot, z), "setting", PyStr(<<"0">>)) = PyStr(<<"0">>)

is_open(snapshot, z) ==
    Get(zone_data(snapshot, z), "setting", PyStr(<<"0">>)) = PyStr(<<"1">>)

\* everything the cover entity of zone z shows
CoverState(snapshot, z) ==
    [position |-> current_cover_position(snapshot, z),
     is_closed |-> is_closed(snapshot, z),
     is_open |-> is_open(snapshot, z)]

(* ---- the command methods of the entities ---- *)
\* a statement of a command method: an awaited write of the api, or
\* "await self.coordinator.async_request_refresh()"
W(req) == [op |-> "write", req |-> req]
R == [op |-> "refresh"]

EZONE_HVAC_MODES ==
    <<[key |-> <<"1">>, val |-> "cool"], [key |-> <<"2">>, val |-> "heat"],
      [key |-> <<"3">>, val |-> "fan_only"]>>
EZONE_FAN_MODES ==
    <<[key |-> <<"1">>, val |-> "low"], [key |-> <<"2">>, val |-> "medium"],
      [key |-> <<"3">>, val |-> "high"]>>

\* "for num, ha in table.items(): if ha == x: found = int(num); break", 0 standing for None
RECURSIVE Lookup(_, _, _)
Lookup(table, i, x) ==
    IF i > Len(table) THEN 0
    ELSE IF table[i].val = x THEN DecimalVal(table[i].key)
    ELSE Lookup(table, i + 1, x)

\* mutant: the cover is opened without a refresh request
async_open_cover_NoRefresh(z) == <<W(async_set_zone_setting(z, TRUE))>>

\* EZoneZoneCover
async_open_cover(z) == <<W(async_set_zone_setting(z, TRUE)), R>>
async_close_cover(z) == <<W(async_set_zone_setting(z, FALSE)), R>>
\* position -1 stands for a call without position
async_set_cover_position(z, position) ==
    IF position = -1 THEN <<>>
    ELSE IF position = 0 THEN <<W(async_set_zone_setting(z, FALSE)), R>>
    ELSE <<W(async_set_zone_percent(z, position)), R>>

\* EZoneClimate; temperature -1 stands for a call without temperature
async_set_temperature(temperature) ==
    IF temperature = -1 THEN <<>>
    ELSE <<W(async_set_target_temp(temperature)), R>>
async_set_hvac_mode(hvac_mode) ==
    IF hvac_mode = "off" THEN <<W(async_set_aircon_on_off(FALSE)), R>>
    ELSE LET ezone_mode == Lookup(EZONE_HVAC_MODES, 1, hvac_mode)
         IN  IF ezone_mode # 0
             THEN <<W(async_set_aircon_on_off(TRUE)), W(async_set_mode(ezone_mode)), R>>
             ELSE <<R>>
\* mutant: the refresh is requested whether or not a fan speed was found
async_set_fan_mode_RefreshAnyway(fan_mode) ==
    LET ezone_speed == Lookup(EZONE_FAN_MODES, 1, fan_mode)
    IN  IF ezone_speed # 0 THEN <<W(async_set_fan_speed(ezone_speed)), R>> ELSE <<R>>

async_set_fan_mode(fan_mode) ==
    LET ezone_speed == Lookup(EZONE_FAN_MODES, 1, fan_mode)
    IN  IF ezone_speed # 0 THEN <<W(async_set_fan_speed(ezone_speed)), R>> ELSE <<>>

\* EZoneZoneClimate
zone_async_set_hvac_mode(z, hvac_mode) ==
    IF hvac_mode = "off" THEN <<W(async_set_zone_setting(z, FALSE)), R>>
    ELSE <<W(async_set_zone_setting(z, TRUE)), R>>

Command(method, z, arg) == [method |-> method, zone |-> z, arg |-> arg]

Program(c) ==
    CASE c.method = "async_open_cover"          -> async_open_cover(c.zone)
      [] c.method = "async_close_cover"         -> async_close_cover(c.zone)
      [] c.method = "async_set_cover_position"  -> async_set_cover_position(c.zone, c.arg)
      [] c.method = "async_set_temperature"     -> async_set_temperature(c.arg)
      [] c.method = "async_set_hvac_mode"       -> async_set_hvac_mode(c.arg)
      [] c.method = "async_set_fan_mode"        -> async_set_fan_mode(c.arg)
      [] c.method = "zone.async_set_hvac_mode"  -> zone_async_set_hvac_mode(c.zone, c.arg)

\* the service calls the entities can receive
HvacModes == {"off", "heat", "dry"}
FanModes == {"high", "auto"}
Commands(zs) ==
    {Command("async_open_cover", z, 0) : z \in zs}
    \cup {Command("async_close_cover", z, 0) : z \in zs}
    \cup {Command("async_set_cover_position", z, p) : z \in zs, p \in {-1, 0, 50}}
    \cup {Command("async_set_temperature", 0, t) : t \in {-1, 24}}
    \cup {Command("async_set_hvac_mode", 0, m) : m \in HvacModes}
    \cup {Command("async_set_fan_mode", 0, f) : f \in FanModes}
    \cup {Command("zone.async_set_hvac_mode", z, m) : z \in zs, m \in {"off", "heat"}}

\* await self.coordinator.async_request_refresh(): during its cooldown the debouncer only
\* notes the request, otherwise it refreshes at once and the method awaits the refresh
RequestRefresh ==
    IF cooldown
    THEN /\ execute_at_end' = TRUE
         /\ cpc' = "done"
         /\ UNCHANGED <<readVars, allVars, fpc, fkind>>
    ELSE /\ cpc' = "refresh"
         /\ BeginRefresh("request")
         /\ UNCHANGED execute_at_end

\* the method runs on from its next statement up to its next await or its return
Continue(prog, trace) ==
    IF prog = <<>>
    THEN /\ cpc' = "done"
         /\ cprog' = prog
         /\ ctrace' = trace
         /\ WriteIdle
         /\ UNCHANGED <<readVars, allVars, fpc, fkind, execute_at_end>>
    ELSE IF Head(prog).op = "write"
    THEN /\ cpc' = "write"
         /\ cprog' = Tail(prog)
         /\ ctrace' = trace
         /\ BeginWrite(Head(prog).req, "command")
         /\ UNCHANGED <<readVars, allVars, fpc, fkind, execute_at_end>>
    ELSE /\ cprog' = Tail(prog)
         /\ ctrace' = Append(trace, [ev |-> "refresh"])
         /\ WriteIdle
         /\ RequestRefresh

\* mutant: a zone write that returned is written into the snapshot at once
CmdWriteDone_Optimistic(o) ==
    /\ IF o.pc = "returned"
       THEN Continue(cprog, Append(ctrace, [ev |-> "write", req |-> wreq]))
       ELSE /\ cpc' = "raised"
            /\ UNCHANGED <<cprog, ctrace>>
            /\ WriteIdle
            /\ UNCHANGED <<readVars, allVars, fpc, fkind, execute_at_end>>
    /\ data' = (IF o.pc = "returned" /\ wreq.path = "/setZoneData"
                THEN LET zones == Get(data, "zones", EmptyDict)
                         key == ToString(wreq.params[1].val)
                         setting == PyStr(<<Digits[wreq.params[Len(wreq.params)].val + 1]>>)
                     IN  SetItem(data, "zones",
                            SetItem(zones, key,
                               SetItem(Get(zones, key, EmptyDict), "setting", setting)))
                ELSE data)
    /\ UNCHANGED <<cmd, entryVars, last_update_success, cooldown>>

\* the write a command method awaited has returned, or raised ApiError, which leaves the method
CmdWriteDone(o) ==
    /\ IF o.pc = "returned"
       THEN Continue(cprog, Append(ctrace, [ev |-> "write", req |-> wreq]))
       ELSE /\ cpc' = "raised"
            /\ UNCHANGED <<cprog, ctrace>>
            /\ WriteIdle
            /\ UNCHANGED <<readVars, allVars, fpc, fkind, execute_at_end>>
    /\ UNCHANGED <<cmd, entryVars, data, last_update_success, cooldown>>

(* ---- async_get_all_data ---- *)
\* ApiError(f"Failed to get all data: {err}")
AllError(err) == [type |-> "ApiError", msg |-> "Failed to get all data", cause |-> err]

\* int(system_data.get("system", {}).get("unitcontrol", {}).get("numberOfZones", 0))
\* .get on a str or list raises AttributeError, int() of a non-number ValueError or TypeError
NumZones(sd) ==
    IF ~IsDict(sd) THEN Throws([type |-> "AttributeError"])
    ELSE LET system == Get(sd, "system", EmptyDict)
         IN  IF ~IsDict(system) THEN Throws([type |-> "AttributeError"])
             ELSE LET unitcontrol == Get(system, "unitcontrol", EmptyDict)
                  IN  IF ~IsDict(unitcontrol) THEN Throws([type |-> "AttributeError"])
                      ELSE LET n == Get(unitcontrol, "numberOfZones", PyInt(0))
                           IN  IF CanInt(n) THEN Ok(ToInt(n))
                               ELSE IF IsStr(n) THEN Throws([type |-> "ValueError"])
                               ELSE Throws([type |-> "TypeError"])

\* mutant: a zone of the snapshot already held that was not fetched this time is kept
AllResult_KeepMissingZones(sd, zd) ==
    LET old == IF data # NoneData THEN Get(data, "zones", EmptyDict) ELSE EmptyDict
        IsMissing(e) == e.key \notin Keys(zd)
    IN  SetItem(SetItem(EmptyDict, "system", Get(sd, "system", EmptyDict)),
                "zones", PyDict(SelectSeq(old.d, IsMissing) \o zd.d))

\* mutant: the system entry of the snapshot already held is kept
AllResult_StaleSystem(sd, zd) ==
    SetItem(SetItem(EmptyDict, "system",
                    IF data # NoneData THEN Get(data, "system", EmptyDict)
                    ELSE Get(sd, "system", EmptyDict)),
            "zones", zd)

\* {"system": system_data.get("system", {}), "zones": zones_data}
AllResult(sd, zd) ==
    SetItem(SetItem(EmptyDict, "system", Get(sd, "system", EmptyDict)), "zones", zd)

\* the record the history keeps of a read that async_get_all_data awaited
LogEntry(res, gets) == [op |-> rop, zone |-> zone, gets |-> gets, res |-> res]

\* async_get_all_data returns or raises: a direct caller finds the outcome in the frame,
\* the coordinator goes on with it at once
AllFinished(ares, log, sd, n, zd) ==
    /\ ReadIdle
    /\ IF acaller = "direct"
       THEN /\ apc' = ares.st
            /\ aret' = ares
            /\ alog' = log
            /\ system_data' = sd
            /\ num_zones' = n
            /\ zones_data' = zd
            /\ UNCHANGED <<zone_num, acaller>>
            /\ UNCHANGED hassVars
       ELSE /\ AllIdle(ares)
            /\ RefreshDone(ares)

\* mutant: "for zone_num in range(1, num_zones + 2)"
ForZone_OneTooMany(z, n, sd, zd, log) ==
    IF z <= n + 1
    THEN /\ apc' = "zones"
         /\ zone_num' = z
         /\ system_data' = sd
         /\ num_zones' = n
         /\ zones_data' = zd
         /\ alog' = (IF acaller = "direct" THEN log ELSE <<>>)
         /\ aret' = NoResult
         /\ UNCHANGED acaller
         /\ BeginRead("zone", z, 0, "all")
         /\ UNCHANGED hassVars
    ELSE AllFinished(Returned(AllResult(sd, zd)), log, sd, n, zd)

\* mutant: the zones are fetched from the highest number down
ForZone_Descending(z, n, sd, zd, log) ==
    IF z <= n
    THEN /\ apc' = "zones"
         /\ zone_num' = z
         /\ system_data' = sd
         /\ num_zones' = n
         /\ zones_data' = zd
         /\ alog' = (IF acaller = "direct" THEN log ELSE <<>>)
         /\ aret' = NoResult
         /\ UNCHANGED acaller
         /\ BeginRead("zone", n + 1 - z, 0, "all")
         /\ UNCHANGED hassVars
    ELSE AllFinished(Returned(AllResult(sd, zd)), log, sd, n, zd)

\* head of the for loop for zone number z: await the zone read, or leave the loop and return
ForZone(z, n, sd, zd, log) ==
    IF z <= n
    THEN /\ apc' = "zones"
         /\ zone_num' = z
         /\ system_data' = sd
         /\ num_zones' = n
         /\ zones_data' = zd
         /\ alog' = (IF acaller = "direct" THEN log ELSE <<>>)
         /\ aret' = NoResult
         /\ UNCHANGED acaller
         /\ BeginRead("zone", z, 0, "all")
         /\ UNCHANGED hassVars
    ELSE AllFinished(Returned(AllResult(sd, zd)), log, sd, n, zd)

\* mutant: once a snapshot is held, its zone count is used instead of the fetched one
SystemStep_Cached(res) ==
    IF res.st = "raised" THEN Throws(res.exc)
    ELSE IF data # NoneData THEN NumZones(data)
    ELSE NumZones(res.val)

\* mutant: a failed system fetch is swallowed and treated as an empty system
SystemStep_Swallow(res) ==
    IF res.st = "raised" THEN Ok(0) ELSE NumZones(res.val)

\* "system_data = await ...; num_zones = int(...)" under the outer "except Exception"
SystemStep(res) ==
    IF res.st = "raised" THEN Throws(res.exc) ELSE NumZones(res.val)

\* mutant: "zones_data[str(num_zones)] = zone_data"
ZoneStep_LastKey(res, zd, z) ==
    IF res.st = "returned" THEN Ok(SetItem(zd, ToString(num_zones), res.val)) ELSE Ok(zd)

\* mutant: only an exhausted zone read is skipped, a fatal failure ends the call
ZoneStep_FatalPropagates(res, zd, z) ==
    IF res.st = "returned" THEN Ok(SetItem(zd, ToString(z), res.val))
    ELSE IF res.exc.error \in {"Response status not 200.", "XML parsing error"}
    THEN Throws(res.exc)
    ELSE Ok(zd)

\* mutant: the except clause of the zone loop is missing
ZoneStep_Propagate(res, zd, z) ==
    IF res.st = "returned" THEN Ok(SetItem(zd, ToString(z), res.val)) ELSE Throws(res.exc)

\* the body of the for loop: "try: zones_data[str(zone_num)] = await ...
\*                            except ApiError: continue"
ZoneStep(res, zd, z) ==
    IF res.st = "returned" THEN Ok(SetItem(zd, ToString(z), res.val)) ELSE Ok(zd)

\* the read async_get_all_data awaited has returned or raised after gets GET requests
AllContinue(res, gets) ==
    LET log == Append(alog, LogEntry(res, gets))
    IN  IF apc = "system"
        THEN LET n == SystemStep(res)
                 sd == IF res.st = "returned" THEN res.val ELSE EmptyDict
             IN  IF ~n.ok
                 THEN AllFinished(Raised(AllError(n.exc)), log, sd, num_zones, zones_data)
                 ELSE ForZone(1, n.val, sd, EmptyDict, log)
        ELSE LET zd == ZoneStep(res, zones_data, zone_num)
             IN  IF ~zd.ok
                 THEN AllFinished(Raised(AllError(zd.exc)), log, system_data, num_zones,
                                  zones_data)
                 ELSE ForZone(zone_num + 1, num_zones, system_data, zd.val, log)

(* ---- async_get_system_data / async_get_zone_data ---- *)
\* the read returns or raises: a direct caller finds the outcome in the frame,
\* async_get_all_data goes on with it at once
ReadFinished(res, c, e, rq) ==
    IF caller = "direct"
    THEN /\ rpc' = res.st
         /\ rret' = res
         /\ count' = c
         /\ error' = e
         /\ reqs' = rq
         /\ UNCHANGED <<rop, zone, retry, caller>>
         /\ UNCHANGED <<allVars, hassVars>>
    ELSE AllContinue(res, Len(rq))

\* mutant: the loop gives up after the first failed attempt
LoopTest_SingleAttempt(c, r) == c < r /\ c < 1

\* mutant: "while count <= retry"
LoopTest_OffByOne(c, r) == c <= r

\* the test of "while count < retry"
LoopTest(c, r) == c < r

\* mutant: a parsing error is retried like a transport error
Outcome_RetryParseError(resp, op, z, err) ==
    IF resp.kind = "ClientError"
    THEN [next |-> "sleep", error |-> resp.kind]
    ELSE IF resp.kind = "TimeoutError"
    THEN [next |-> "sleep", error |-> "Connection timed out."]
    ELSE IF resp.status # 200
    THEN [next |-> "break", error |-> "Response status not 200."]
    ELSE IF Parse(op, resp.body, z).ok
    THEN [next |-> "return", error |-> err, val |-> Parse(op, resp.body, z).val]
    ELSE [next |-> "sleep", error |-> "XML parsing error"]

\* mutant: a status other than 200 is retried like a transport error
Outcome_RetryNon200(resp, op, z, err) ==
    IF resp.kind = "ClientError"
    THEN [next |-> "sleep", error |-> resp.kind]
    ELSE IF resp.kind = "TimeoutError"
    THEN [next |-> "sleep", error |-> "Connection timed out."]
    ELSE IF resp.status # 200
    THEN [next |-> "sleep", error |-> "Response status not 200."]
    ELSE IF Parse(op, resp.body, z).ok
    THEN [next |-> "return", error |-> err, val |-> Parse(op, resp.body, z).val]
    ELSE [next |-> "break", error |-> "XML parsing error"]

\* the try/except of one iteration: what the response of the GET leads to
\*   "sleep"  : a retryable error is kept in error, the loop goes on to asyncio.sleep(1)
\*   "break"  : AssertionError (status not 200) or any other Exception (parsing) leaves the loop
\*   "return" : the parsed body is returned
Outcome(resp, op, z, err) ==
    IF resp.kind = "ClientError"
    THEN [next |-> "sleep", error |-> resp.kind]
    ELSE IF resp.kind = "TimeoutError"
    THEN [next |-> "sleep", error |-> "Connection timed out."]
    ELSE IF resp.status # 200
    THEN [next |-> "break", error |-> "Response status not 200."]
    ELSE IF Parse(op, resp.body, z).ok
    THEN [next |-> "return", error |-> err, val |-> Parse(op, resp.body, z).val]
    ELSE [next |-> "break", error |-> "XML parsing error"]

\* mutant: after a retryable error the loop goes straight on to its test and the next GET
Attempt_NoBackoff(resp) ==
    LET c == count + 1
        rq == Append(reqs, [path |-> Path(rop), zone |-> zone, resp |-> resp])
        o == Outcome(resp, rop, zone, error)
    IN  IF o.next = "sleep"
        THEN IF LoopTest(c, retry)
             THEN /\ rpc' = "get"
                  /\ count' = c
                  /\ error' = o.error
                  /\ reqs' = rq
                  /\ UNCHANGED <<rop, zone, retry, rret, caller>>
                  /\ UNCHANGED <<allVars, hassVars>>
             ELSE ReadFinished(Raised(ReadError(c, o.error)), c, o.error, rq)
        ELSE IF o.next = "break"
        THEN ReadFinished(Raised(ReadError(c, o.error)), c, o.error, rq)
        ELSE ReadFinished(Returned(o.val), c, o.error, rq)

\* one iteration of the loop up to its sleep, or its break and the raise after the loop,
\* or its return
Attempt(resp) ==
    LET c == count + 1
        rq == Append(reqs, [path |-> Path(rop), zone |-> zone, resp |-> resp])
        o == Outcome(resp, rop, zone, error)
    IN  IF o.next = "sleep"
        THEN /\ rpc' = "sleep"
             /\ count' = c
             /\ error' = o.error
             /\ reqs' = rq
             /\ UNCHANGED <<rop, zone, retry, rret, caller>>
             /\ UNCHANGED <<allVars, hassVars>>
        ELSE IF o.next = "break"
        THEN ReadFinished(Raised(ReadError(c, o.error)), c, o.error, rq)
        ELSE ReadFinished(Returned(o.val), c, o.error, rq)

\* the response is not one a healthy controller gives
Faulty(resp, op, z) ==
    \/ resp.kind # "response"
    \/ resp.status # 200
    \/ ~Parse(op, resp.body, z).ok
    \/ op = "system" /\ ~NumZones(Parse(op, resp.body, z).val).ok

\* the GET of the current iteration gets its response, a timeout or a transport error
ReadAttempt ==
    /\ rpc = "get"
    /\ \E resp \in Responses(Bodies(rop)) :
          /\ CountFault(acaller = "refresh", Faulty(resp, rop, zone))
          /\ Attempt(resp)
    /\ UNCHANGED <<self_retry, writeVars>>

\* await asyncio.sleep(1), then the loop test and, when it fails, the raise after the loop
ReadSleep ==
    /\ rpc = "sleep"
    /\ IF LoopTest(count, retry)
       THEN /\ rpc' = "get"
            /\ UNCHANGED <<rop, zone, retry, count, error, rret, reqs, caller>>
            /\ UNCHANGED <<allVars, hassVars>>
       ELSE ReadFinished(Raised(ReadError(count, error)), count, error, reqs)
    /\ UNCHANGED <<self_retry, writeVars, faults>>

(* ---- async_get_zone_timer ---- *)
\* body of /getZoneTimer
TimerXml(hours) ==
    Document(Elem("iZS10.3", <<>>, <<Elem("startTimeHours", hours, <<>>)>>))

TimerBodies == {TimerXml(<<"7">>), TimerXml(<<>>), TextXml, Malformed}

\* ApiError(f"Failed to get zone timer: {err}")
TimerError(err) == [type |-> "ApiError", msg |-> "Failed to get zone timer", cause |-> err]

\* "try: GET; assert resp.status == 200; return self._parse_system_xml(xml_data)
\*  except Exception as err: raise ApiError(...)": no loop, no retry parameter
TimerOutcome(resp) ==
    IF resp.kind # "response" THEN Raised(TimerError(resp.kind))
    ELSE IF resp.status # 200 THEN Raised(TimerError("AssertionError"))
    ELSE IF ~parse_system_xml(resp.body).ok
    THEN Raised(TimerError(parse_system_xml(resp.body).exc))
    ELSE Returned(parse_system_xml(resp.body).val)

\* entry of async_get_zone_timer up to its GET
BeginTimer(who) ==
    /\ rpc' = "get_timer"
    /\ rop' = "timer"
    /\ zone' = 0
    /\ retry' = 0
    /\ count' = 0
    /\ error' = "None"
    /\ rret' = NoResult
    /\ reqs' = <<>>
    /\ caller' = who

\* the GET of async_get_zone_timer gets its response, a timeout or a transport error
TimerAttempt ==
    /\ rpc = "get_timer"
    /\ \E resp \in Responses(TimerBodies) :
          /\ rpc' = TimerOutcome(resp).st
          /\ rret' = TimerOutcome(resp)
          /\ reqs' = Append(reqs, [path |-> "/getZoneTimer", zone |-> 0, resp |-> resp])
    /\ UNCHANGED <<rop, zone, retry, count, error, caller>>
    /\ UNCHANGED <<self_retry, allVars, writeVars, faults, hassVars>>

(* ---- the GET of a write ---- *)
\* the GET of the write gets its response, a timeout or a transport error
WriteAttempt ==
    /\ wpc = "get"
    /\ \E resp \in WriteResponses :
          LET o == WriteOutcome(resp)
          IN  /\ CountFault(wcaller = "command", resp.kind # "response" \/ resp.status # 200)
              /\ IF wcaller = "direct"
                 THEN /\ wpc' = o.pc
                      /\ wret' = o.ret
                      /\ wreqs' = Append(wreqs, [req |-> wreq, resp |-> resp])
                      /\ UNCHANGED <<wreq, wcaller>>
                      /\ UNCHANGED <<readVars, allVars, hassVars>>
                 ELSE CmdWriteDone(o)
    /\ UNCHANGED self_retry

(* ---- the client called directly ---- *)
InitFrames ==
    /\ rpc = "idle" /\ rop = "none" /\ zone = 0 /\ retry = 0 /\ count = 0
    /\ error = "None" /\ rret = NoResult /\ reqs = <<>> /\ caller = "none"
    /\ apc = "idle" /\ system_data = EmptyDict /\ num_zones = 0 /\ zone_num = 0
    /\ zones_data = EmptyDict /\ aret = NoResult /\ alog = <<>> /\ acaller = "none"
    /\ wpc = "idle" /\ wreq = NoRequest /\ wret = NoResult /\ wreqs = <<>> /\ wcaller = "none"
    /\ faults = 0
    /\ InitHass

\* a client constructed with some retry budget
InitApi ==
    /\ self_retry \in 1..MaxRetry
    /\ InitFrames

ApiIdle == rpc = "idle" /\ apc = "idle" /\ wpc = "idle"

\* await api.async_get_system_data(retry=r), r = 0 standing for the default None
CallGetSystemData ==
    /\ ApiIdle
    /\ \E r \in 0..MaxRetry : BeginRead("system", 0, r, "direct")
    /\ UNCHANGED <<self_retry, allVars, writeVars, faults, hassVars>>

\* await api.async_get_zone_data(z, retry=r)
CallGetZoneData ==
    /\ ApiIdle
    /\ \E z \in 1..MaxZones, r \in 0..MaxRetry : BeginRead("zone", z, r, "direct")
    /\ UNCHANGED <<self_retry, allVars, writeVars, faults, hassVars>>

\* the direct caller takes the read's result or exception
ReadDone ==
    /\ caller = "direct" /\ rpc \in {"returned", "raised"}
    /\ ReadIdle
    /\ UNCHANGED <<self_retry, allVars, writeVars, faults, hassVars>>

\* await api.async_get_all_data()
CallGetAllData ==
    /\ ApiIdle
    /\ BeginAll("direct")
    /\ UNCHANGED <<self_retry, writeVars, faults, hassVars>>

\* the direct caller takes the result or exception of async_get_all_data
AllDone ==
    /\ acaller = "direct" /\ apc \in {"returned", "raised"}
    /\ AllIdle(NoResult)
    /\ UNCHANGED <<self_retry, readVars, writeVars, faults, hassVars>>

\* await one of the api's write operations
CallWrite ==
    /\ ApiIdle
    /\ \E req \in WriteRequests : BeginWrite(req, "direct")
    /\ UNCHANGED <<self_retry, readVars, allVars, faults, hassVars>>

\* the direct caller takes the write's result or exception
WriteDone ==
    /\ wcaller = "direct" /\ wpc \in {"returned", "raised"}
    /\ WriteIdle
    /\ UNCHANGED <<self_retry, readVars, allVars, faults, hassVars>>

vars == <<apiVars, faults, hassVars>>

NextApi ==
    \/ CallGetSystemData
    \/ CallGetZoneData
    \/ ReadAttempt
    \/ ReadSleep
    \/ ReadDone
    \/ CallGetAllData
    \/ AllDone
    \/ CallWrite
    \/ WriteAttempt
    \/ WriteDone

SpecApi == InitApi /\ [][NextApi]_vars

(* ---- async_get_all_data called directly, under the event loop's guarantees ---- *)
NextAllData ==
    \/ CallGetAllData
    \/ ReadAttempt
    \/ ReadSleep
    \/ AllDone

\* every GET ends, with a response, a transport error or the 4 s timeout of
\* aiohttp.ClientTimeout(total=4), and every asyncio.sleep(1) ends
SpecAllData ==
    InitApi /\ [][NextAllData]_vars /\ WF_vars(ReadAttempt) /\ WF_vars(ReadSleep)

(* ---- the three read operations called directly ---- *)
\* await api.async_get_zone_timer()
CallGetZoneTimer ==
    /\ ApiIdle
    /\ BeginTimer("direct")
    /\ UNCHANGED <<self_retry, allVars, writeVars, faults, hassVars>>

NextReads ==
    \/ CallGetSystemData
    \/ CallGetZoneData
    \/ CallGetZoneTimer
    \/ ReadAttempt
    \/ ReadSleep
    \/ TimerAttempt
    \/ ReadDone

SpecReads == InitApi /\ [][NextReads]_vars

(* ---- the integration: setup, polling and service calls ---- *)
\* One chain of coroutines runs at a time: the interval timer and the debouncer's timer
\* fire, and service calls arrive, while no refresh and no command method is running.

\* async_setup_entry up to "await coordinator.async_config_entry_first_refresh()", also
\* when the entry is set up again after ConfigEntryNotReady
SetupEntry ==
    /\ spc \in {"not_loaded", "not_ready"}
    /\ spc' = "first_refresh"
    /\ data' = NoneData
    /\ last_update_success' = TRUE
    /\ cooldown' = FALSE
    /\ execute_at_end' = FALSE
    /\ BeginRefresh("first")
    /\ UNCHANGED <<self_retry, writeVars, faults, hass_data, platforms, entities, cmdVars>>

\* await hass.config_entries.async_forward_entry_setups(entry, PLATFORMS): each platform
\* creates its entities from coordinator.data
SetupForward ==
    /\ spc = "forward"
    /\ spc' = "loaded"
    /\ platforms' = PLATFORMS
    /\ entities' = ZonesOf(data)
    /\ UNCHANGED <<apiVars, faults, hass_data, coordVars, cmdVars>>

\* mutant: the interval timer is armed again only after a successful refresh
IntervalRefresh_StopsAfterFailure ==
    /\ spc = "loaded" /\ cpc = "idle" /\ last_update_success
    /\ cooldown' = FALSE
    /\ execute_at_end' = FALSE
    /\ BeginRefresh("interval")
    /\ UNCHANGED <<self_retry, writeVars, faults, entryVars, data, last_update_success, cmdVars>>

\* the update interval (30 s) has passed: the refresh cancels the debouncer's timer
IntervalRefresh ==
    /\ spc = "loaded" /\ cpc = "idle"
    /\ cooldown' = FALSE
    /\ execute_at_end' = FALSE
    /\ BeginRefresh("interval")
    /\ UNCHANGED <<self_retry, writeVars, faults, entryVars, data, last_update_success, cmdVars>>

\* the debouncer's cooldown ends: a request that arrived meanwhile is served now
CooldownEnds ==
    /\ cooldown /\ fpc = "idle" /\ cpc = "idle"
    /\ cooldown' = FALSE
    /\ execute_at_end' = FALSE
    /\ IF execute_at_end
       THEN BeginRefresh("timer")
       ELSE UNCHANGED <<readVars, allVars, fpc, fkind>>
    /\ UNCHANGED <<self_retry, writeVars, faults, entryVars, data, last_update_success, cmdVars>>

\* a service call reaches a command method of an entity, which runs up to its first await
CmdStart ==
    /\ spc = "loaded" /\ cpc = "idle" /\ fpc = "idle"
    /\ \E c \in Commands(entities) :
          /\ cmd' = c
          /\ Continue(Program(c), <<>>)
    /\ UNCHANGED <<self_retry, faults, entryVars, data, last_update_success, cooldown>>

\* the service call is over
CmdFinish ==
    /\ cpc \in {"done", "raised"}
    /\ cpc' = "idle"
    /\ cmd' = NoCommand
    /\ cprog' = <<>>
    /\ ctrace' = <<>>
    /\ UNCHANGED <<apiVars, faults, entryVars, coordVars>>

\* async_setup_entry creates the api with the default retry
Init ==
    /\ self_retry = DefaultRetry
    /\ InitFrames

Next ==
    \/ SetupEntry
    \/ SetupForward
    \/ IntervalRefresh
    \/ CooldownEnds
    \/ ReadAttempt
    \/ ReadSleep
    \/ CmdStart
    \/ WriteAttempt
    \/ CmdFinish

Spec == Init /\ [][Next]_vars

\* the polling loop on its own: setup, the interval timer and the reads of a refresh
NextPolling ==
    \/ SetupEntry
    \/ SetupForward
    \/ IntervalRefresh
    \/ ReadAttempt
    \/ ReadSleep

\* What the event loop guarantees: every GET ends (response, transport error or the 4 s
\* timeout), every sleep ends, and the interval timer, armed again after every refresh
\* whatever its outcome, fires.
Fairness ==
    /\ WF_vars(ReadAttempt)
    /\ WF_vars(ReadSleep)
    /\ WF_vars(IntervalRefresh)

SpecPolling == Init /\ [][NextPolling]_vars /\ Fairness

(* ---- the XML normaliser applied to the body of a read ---- *)
\* the GET of a system read is answered with some well-formed document
XmlAttempt ==
    /\ rpc = "get" /\ rop = "system" /\ caller = "direct"
    /\ \E root \in XmlRoots : Attempt(Response(200, Document(root)))
    /\ UNCHANGED <<self_retry, writeVars, faults>>

NextXml ==
    \/ CallGetSystemData
    \/ XmlAttempt
    \/ ReadDone

SpecXml == InitApi /\ [][NextXml]_vars

(* ---- properties of the retried reads ---- *)
IsRetryable(resp) == resp.kind \in RetryableErrors
IsNon200(resp) == resp.kind = "response" /\ resp.status # 200
IsUnparseable(resp) ==
    resp.kind = "response" /\ resp.status = 200 /\ ~Parse(rop, resp.body, zone).ok
IsSuccess(resp) ==
    resp.kind = "response" /\ resp.status = 200 /\ Parse(rop, resp.body, zone).ok

\* attempts 1..n of the current read all failed with a retryable transport error
AllRetryable(n) == \A j \in 1..n : IsRetryable(reqs[j].resp)

\* the error the except clauses keep for a failed attempt
ErrorOf(resp) ==
    IF resp.kind = "TimeoutError" THEN "Connection timed out."
    ELSE IF resp.kind = "ClientError" THEN "ClientError"
    ELSE IF resp.status # 200 THEN "Response status not 200."
    ELSE "XML parsing error"

\* C1: a read whose attempts 1..k-1 fail with retryable transport errors and whose
\* attempt k <= B succeeds returns the parsed body of attempt k, raises nothing and
\* has issued exactly k GET requests; while fewer than B retryable failures have
\* happened the read is still running.
C1_RetryThenSuccess ==
    /\ rpc # "idle" => count = Len(reqs)
    /\ (Len(reqs) < retry /\ AllRetryable(Len(reqs))) => rpc \in {"idle", "get", "sleep"}
    /\ \A k \in 1..Len(reqs) :
          (AllRetryable(k - 1) /\ IsSuccess(reqs[k].resp)) =>
              /\ k = Len(reqs)
              /\ k <= retry
              /\ rpc = "returned"
              /\ rret = Returned(Parse(rop, reqs[k].resp.body, zone).val)

C1_Witness ==
    /\ rpc = "returned" /\ caller = "direct"
    /\ Len(reqs) = MaxRetry /\ retry = MaxRetry
    /\ AllRetryable(MaxRetry - 1)

\* C2: a read whose first attempt returns an unparseable body raises ApiError after
\* exactly one GET request, whatever the budget.
C2_ParseErrorIsFatal ==
    (Len(reqs) >= 1 /\ IsUnparseable(reqs[1].resp)) =>
        /\ Len(reqs) = 1
        /\ count = 1
        /\ rpc = "raised"
        /\ rret.st = "raised" /\ rret.exc.type = "ApiError"

C2_Witness ==
    /\ rpc = "raised" /\ retry = MaxRetry /\ Len(reqs) = 1
    /\ reqs[1].resp = Response(200, Malformed)

\* C3: a non-200 status on any attempt ends the read at that attempt with ApiError,
\* even if attempts remain in the budget.
C3_Non200IsFatal ==
    \A k \in 1..Len(reqs) :
        IsNon200(reqs[k].resp) =>
            /\ k = Len(reqs)
            /\ count = k
            /\ rpc = "raised"
            /\ rret.st = "raised" /\ rret.exc.type = "ApiError"

C3_Witness ==
    /\ rpc = "raised" /\ Len(reqs) = 2 /\ retry > 2
    /\ IsNon200(reqs[2].resp)

Exhausted == rpc # "idle" /\ Len(reqs) = retry /\ AllRetryable(retry)
FatalLast ==
    /\ Len(reqs) >= 1
    /\ IsNon200(reqs[Len(reqs)].resp) \/ IsUnparseable(reqs[Len(reqs)].resp)

\* C4 as stated: a finished read has failed exactly when B consecutive attempts failed
\* with retryable transport errors.
C4_FailsOnlyOnExhaustion ==
    rpc \in {"returned", "raised"} => (rpc = "raised" <=> Exhausted)

\* C4 (amended): a finished read has failed exactly when B consecutive attempts failed
\* with retryable transport errors or its last attempt failed fatally (status not 200,
\* unparseable body); a read never issues more than B GET requests, and the error
\* raised carries the attempt count and the last underlying error.
C4_FailsOnExhaustionOrFatal ==
    /\ Len(reqs) <= retry
    /\ rpc \in {"returned", "raised"} => (rpc = "raised" <=> (Exhausted \/ FatalLast))
    /\ Exhausted => rpc \in {"sleep", "raised"}
    /\ rpc = "raised" =>
          /\ rret.exc.type = "ApiError"
          /\ rret.exc.count = Len(reqs)
          /\ rret.exc.error = ErrorOf(reqs[Len(reqs)].resp)

C4_Witness ==
    /\ rpc = "raised" /\ Exhausted /\ retry = MaxRetry
    /\ reqs[1].resp.kind # reqs[retry].resp.kind

\* C16 as stated: a read that stopped early on a fatal error (status not 200, unparseable
\* body) raises an error that is not of the form of the exhaustion error "No valid
\* response after {count} failed attempt(s). Last error was: ...".
C16_FatalErrorDistinct ==
    (/\ rpc = "raised"
     /\ rop \in {"system", "zone"}
     /\ FatalLast
     /\ ~Exhausted) => rret.exc.msg # "No valid response"

(* ---- properties of the zone timer read ---- *)
\* C15 as stated: the zone timer read is wrapped by the retry engine like the two other
\* reads: when its first GET hits a retryable transport error and the client's budget
\* is more than one attempt, it does not fail after that one request.
C15_ZoneTimerRetried ==
    (/\ rop = "timer"
     /\ self_retry > 1
     /\ Len(reqs) = 1
     /\ IsRetryable(reqs[1].resp)) => rpc # "raised"

(* ---- properties of the backoff ---- *)
\* the step answers the GET of the running read, and the read stays in its frame
Answered == rpc = "get" /\ Len(reqs') = Len(reqs) + 1 /\ SubSeq(reqs', 1, Len(reqs)) = reqs

\* C22: an attempt that fails with a retryable transport error is followed by one sleep
\* (asyncio.sleep(1)), and the next GET is issued only out of that sleep; an attempt that
\* fails fatally (status not 200, unparseable body) raises in the same step, without a
\* sleep.
C22_BackoffAfterRetryable ==
    [][/\ (Answered /\ IsRetryable(reqs'[Len(reqs')].resp)) =>
             (rpc' = "sleep" /\ rret' = NoResult)
       /\ (Answered /\ ~IsRetryable(reqs'[Len(reqs')].resp)) =>
             rpc' \in {"returned", "raised"}
       /\ (Answered /\ rpc' = "raised") =>
             (IsNon200(reqs'[Len(reqs')].resp) \/ IsUnparseable(reqs'[Len(reqs')].resp))
       /\ rpc' = "sleep" =>
             /\ rop' \in {"system", "zone"}
             /\ Len(reqs') >= 1
             /\ IsRetryable(reqs'[Len(reqs')].resp)
             /\ rpc = "get"
       /\ (rpc' = "get" /\ Len(reqs') >= 1) =>
             (rpc = "sleep" /\ reqs' = reqs /\ IsRetryable(reqs[Len(reqs)].resp))
       /\ rpc = "sleep" => rpc' # "sleep"]_vars

\* two retryable failures, each followed by its sleep, then a status 500 that raises
C22_Witness ==
    /\ rpc = "raised" /\ retry = MaxRetry /\ Len(reqs) = 3
    /\ AllRetryable(2)
    /\ IsNon200(reqs[3].resp)

(* ---- properties of the writes ---- *)
\* C5: a write issues exactly one GET request and is never retried: on a status other
\* than 200, a transport error or a timeout it raises ApiError after that request.
C5_WriteNotRetried ==
    /\ wpc = "get" => Len(wreqs) = 0
    /\ wpc \in {"returned", "raised"} =>
          /\ Len(wreqs) = 1
          /\ wreqs[1].req = wreq
          /\ wpc = "raised" <=> (wreqs[1].resp.kind # "response" \/ wreqs[1].resp.status # 200)
          /\ wpc = "raised" => wret.exc.type = "ApiError"
          /\ wpc = "returned" => wret = Returned(wreqs[1].resp.body)

C5_Witness ==
    /\ wpc = "raised" /\ Len(wreqs) = 1
    /\ wreqs[1].resp.kind = "TimeoutError"
    /\ wreq.path = "/setZoneTimer"

(* ---- properties of async_get_all_data ---- *)
ZoneEntries == {i \in 1..Len(alog) : alog[i].op = "zone"}
SucceededZones == {alog[i].zone : i \in {j \in ZoneEntries : alog[j].res.st = "returned"}}
FailedZones == {alog[i].zone : i \in {j \in ZoneEntries : alog[j].res.st = "raised"}}
\* the zone of log entry i used up the budget on retryable errors
ExhaustedEntry(i) ==
    /\ alog[i].res.st = "raised"
    /\ alog[i].gets = self_retry
    /\ alog[i].res.exc.error \in {"ClientError", "Connection timed out."}
SystemFetched == Len(alog) >= 1 /\ alog[1].op = "system" /\ alog[1].res.st = "returned"

\* C6: when the system fetch succeeds and the advertised zone count N is readable, zone
\* fetches that fail never make async_get_all_data raise: it returns a zones mapping
\* whose keys are exactly 1..N minus the failed zones.
C6_FailedZoneOmitted ==
    /\ (SystemFetched /\ NumZones(alog[1].res.val).ok) => apc # "raised"
    /\ apc = "returned" =>
          /\ SucceededZones \cup FailedZones = 1..num_zones
          /\ Keys(Get(aret.val, "zones", EmptyDict))
                = {ToString(z) : z \in (1..num_zones) \ FailedZones}

C6_Witness ==
    /\ apc = "returned" /\ num_zones = MaxZones
    /\ FailedZones = {1}
    /\ \E i \in ZoneEntries : alog[i].zone = 1 /\ ExhaustedEntry(i)
    /\ Keys(Get(aret.val, "zones", EmptyDict)) = {ToString(z) : z \in 2..MaxZones}

\* C7: async_get_all_data raises ApiError or returns a result with a system entry and
\* a zones mapping; a failed system fetch makes it raise ApiError without any zone
\* fetch; every zone in the result was fetched successfully in this call.
C7_SystemOrError ==
    /\ (Len(alog) >= 1 /\ alog[1].res.st = "raised") =>
          /\ apc = "raised"
          /\ Len(alog) = 1
          /\ rpc = "idle"
    /\ apc = "raised" => aret.exc.type = "ApiError"
    /\ apc = "returned" =>
          /\ Keys(aret.val) = {"system", "zones"}
          /\ IsDict(Get(aret.val, "zones", PyInt(0)))
          /\ Get(aret.val, "system", PyInt(0)) = Get(alog[1].res.val, "system", EmptyDict)
          /\ \A key \in Keys(Get(aret.val, "zones", EmptyDict)) :
                \E i \in ZoneEntries :
                    /\ ToString(alog[i].zone) = key
                    /\ alog[i].res = Returned(Get(Get(aret.val, "zones", EmptyDict), key, PyInt(0)))

C7_Witness ==
    /\ apc = "raised" /\ Len(alog) = 1
    /\ ExhaustedEntry(1)

\* C17: within one async_get_all_data call the reads are awaited one after the other:
\* the system read first, then the zones in the order 1, 2, .., N. While zone z is being
\* fetched the reads of the system and of the zones 1..z-1 have all finished (returned or
\* raised), every GET issued since belongs to zone z, and no other read of the call is
\* running; once the call has returned, exactly the zones 1..N were attempted.
C17_ZonesInOrder ==
    acaller = "direct" =>
        /\ \A i \in 1..Len(alog) :
              /\ alog[i].res.st \in {"returned", "raised"}
              /\ alog[i].gets >= 1
              /\ IF i = 1 THEN alog[i].op = "system"
                 ELSE alog[i].op = "zone" /\ alog[i].zone = i - 1
        /\ apc = "system" =>
              /\ alog = <<>>
              /\ rop = "system" /\ caller = "all" /\ rpc \in {"get", "sleep"}
        /\ apc = "zones" =>
              /\ zone_num \in 1..num_zones
              /\ Len(alog) = zone_num
              /\ rop = "zone" /\ zone = zone_num /\ caller = "all" /\ rpc \in {"get", "sleep"}
              /\ \A j \in 1..Len(reqs) :
                    reqs[j].path = "/getZoneData" /\ reqs[j].zone = zone_num
        /\ apc = "returned" => (Len(alog) = num_zones + 1 /\ rpc = "idle")
        /\ apc = "raised" => (Len(alog) = 1 /\ rpc = "idle")

\* zone 1 used up its budget; the first GET for zone 2 is about to be issued
C17_Witness ==
    /\ acaller = "direct" /\ apc = "zones" /\ zone_num = 2
    /\ rpc = "get" /\ reqs = <<>>
    /\ ExhaustedEntry(2) /\ self_retry > 1

\* the step ends the read of zone zone_num with an ApiError, after gets GET requests
ZoneReadFails(gets) ==
    /\ acaller = "direct" /\ apc = "zones"
    /\ Len(alog') = Len(alog) + 1
    /\ alog'[Len(alog')].op = "zone" /\ alog'[Len(alog')].zone = zone_num
    /\ alog'[Len(alog')].res.st = "raised"
    /\ alog'[Len(alog')].gets = gets

\* what the aggregation does once the read of zone zone_num has failed: no error, the
\* zone is left out, and the loop goes on with the next zone or returns after the last
ZoneSkipped ==
    /\ apc' # "raised"
    /\ zones_data' = zones_data
    /\ ToString(zone_num) \notin Keys(zones_data')
    /\ IF zone_num < num_zones
       THEN /\ apc' = "zones" /\ zone_num' = zone_num + 1
            /\ rpc' = "get" /\ rop' = "zone" /\ zone' = zone_num + 1 /\ reqs' = <<>>
       ELSE /\ apc' = "returned"
            /\ Get(aret'.val, "zones", PyInt(0)) = zones_data

\* C25: a zone read that fails fatally is treated like one that used up its budget: the
\* aggregation raises no error, leaves the zone out and goes on with zone z+1; a zone
\* read that raises after one GET (with a budget above one) failed on a status other
\* than 200 or an unparseable body, and a first attempt answered that way ends the read.
C25_FatalZoneOmitted ==
    [][/\ \A g \in 1..MaxRetry : ZoneReadFails(g) => ZoneSkipped
       /\ (ZoneReadFails(1) /\ self_retry > 1) =>
             /\ count = 0
             /\ alog'[Len(alog')].res.exc.error
                    \in {"Response status not 200.", "XML parsing error"}
       /\ (acaller = "direct" /\ apc = "zones" /\ apc' = "zones" /\ zone_num' = zone_num
              /\ count = 0 /\ count' = 1) => rpc' = "sleep"]_vars

\* zone 1 failed fatally on its first GET, zone 2 was fetched and is alone in the result
C25_Witness ==
    /\ acaller = "direct" /\ apc = "returned" /\ num_zones = 2 /\ self_retry > 1
    /\ alog[2].res.st = "raised" /\ alog[2].gets = 1
    /\ alog[2].res.exc.error = "XML parsing error"
    /\ alog[3].res.st = "returned"
    /\ Keys(Get(aret.val, "zones", EmptyDict)) = {"2"}

\* the GET requests of the reads the call has awaited so far
RECURSIVE GetsOf(_)
GetsOf(log) == IF log = <<>> THEN 0 ELSE Head(log).gets + GetsOf(Tail(log))

\* C26: every async_get_all_data call ends, by returning or raising, and with budget B
\* and advertised zone count N it issues at most B GET requests for the system data, at
\* most B for each zone and so at most B * (1 + N) in all.
C26_AllDataBounded ==
    /\ [](acaller = "direct" =>
            /\ Len(reqs) <= self_retry
            /\ \A i \in 1..Len(alog) : alog[i].gets <= self_retry
            /\ Len(alog) <= 1 + num_zones
            /\ GetsOf(alog) + Len(reqs) <= self_retry * (1 + num_zones))
    /\ (acaller = "direct" /\ apc \in {"system", "zones"}) ~> (apc \in {"returned", "raised"})

\* a call that used its whole budget on the system data and again on every zone
C26_Witness ==
    /\ acaller = "direct" /\ apc = "returned"
    /\ self_retry = MaxRetry /\ num_zones = MaxZones
    /\ GetsOf(alog) = MaxRetry * (1 + MaxZones)

\* the zones mapping m holds, under decimal keys of zones within 1..N, what the read
\* made for that very zone returned, zone_number included
KeyedByZone(m) ==
    \A key \in Keys(m) :
        \E z \in 1..num_zones :
            /\ key = ToString(z)
            /\ IsDict(Get(m, key, PyInt(0)))
            /\ Get(Get(m, key, PyInt(0)), "zone_number", PyStr(<<>>)) = PyInt(z)
            /\ Len(alog) >= z + 1
            /\ alog[z + 1].op = "zone" /\ alog[z + 1].zone = z
            /\ alog[z + 1].res = Returned(Get(m, key, PyInt(0)))

\* C27: in every result of async_get_all_data, and in the mapping the zone loop is
\* filling, the keys of the zones are the decimal strings of zone numbers within 1..N,
\* N being the numberOfZones of the system data this call fetched, and the value under
\* str(z) is what the read with zone=z returned, carrying zone_number == z.
C27_ZonesKeyedByNumber ==
    acaller = "direct" =>
        /\ apc \in {"zones", "returned"} =>
              /\ alog[1].op = "system" /\ alog[1].res.st = "returned"
              /\ NumZones(alog[1].res.val) = Ok(num_zones)
        /\ apc = "zones" => KeyedByZone(zones_data)
        /\ apc = "returned" =>
              /\ Get(aret.val, "zones", PyInt(0)) = zones_data
              /\ KeyedByZone(zones_data)

\* every zone was fetched, zone 1 being off and zone 2 on
C27_Witness ==
    /\ acaller = "direct" /\ apc = "returned" /\ num_zones = 2
    /\ Keys(Get(aret.val, "zones", EmptyDict)) = {"1", "2"}
    /\ Get(zone_data(aret.val, 1), "setting", PyInt(0)) = PyStr(<<"0">>)
    /\ Get(zone_data(aret.val, 2), "setting", PyInt(0)) = PyStr(<<"1">>)
    /\ Get(zone_data(aret.val, 2), "zone_number", PyStr(<<>>)) = PyInt(2)

(* ---- properties of the coordinator and the setup ---- *)
\* C8: when the coordinator holds a snapshot, a refresh whose async_get_all_data raises
\* ApiError leaves the snapshot as it was and marks the update failed; a refresh whose
\* async_get_all_data returns replaces the snapshot by the result and marks the update
\* successful.
C8_FailedRefreshKeepsSnapshot ==
    [][(fpc = "updating" /\ fpc' = "idle" /\ data # NoneData) =>
          IF aret'.st = "raised"
          THEN /\ aret'.exc.type = "ApiError"
               /\ data' = data
               /\ ~last_update_success'
          ELSE /\ data' = aret'.val
               /\ last_update_success']_vars

C8_Witness ==
    /\ fpc = "idle" /\ spc = "loaded"
    /\ data # NoneData /\ ~last_update_success
    /\ aret.st = "raised"

\* C9: when the first refresh fails, async_setup_entry ends with ConfigEntryNotReady:
\* the coordinator and api are not registered, no platform is set up and there is no
\* snapshot; whenever the entry is registered or forwarded, the snapshot is a complete
\* result of async_get_all_data.
C9_FirstRefreshFailureSurfaces ==
    /\ spc = "not_ready" =>
          /\ ~hass_data /\ platforms = {} /\ entities = {}
          /\ data = NoneData /\ ~last_update_success
          /\ aret.st = "raised"
    /\ spc = "first_refresh" => ~hass_data /\ platforms = {} /\ data = NoneData
    /\ (spc \in {"forward", "loaded"} \/ hass_data \/ platforms # {}) =>
          /\ data # NoneData
          /\ Keys(data) = {"system", "zones"}

C9_Witness ==
    /\ spc = "not_ready" /\ fpc = "idle"
    /\ aret.st = "raised" /\ faults >= 1

(* ---- properties of the command methods ---- *)
WritesOf(t) == {i \in 1..Len(t) : t[i].ev = "write"}
RefreshesOf(t) == {i \in 1..Len(t) : t[i].ev = "refresh"}
IsWriteStatement(st) == st.op = "write"
IsWriteEvent(e) == e.ev = "write"

\* C10: a command method whose writes all returned has made every write of the method
\* and exactly one refresh request, after the last write returned; no refresh is
\* requested while a write is awaited.
C10_OneRefreshAfterWrites ==
    /\ cpc = "write" => RefreshesOf(ctrace) = {}
    /\ cpc = "refresh" => RefreshesOf(ctrace) = {Len(ctrace)}
    /\ (cpc = "done" /\ WritesOf(ctrace) # {}) =>
          /\ RefreshesOf(ctrace) = {Len(ctrace)}
          /\ LET ws == SelectSeq(ctrace, IsWriteEvent)
                 ps == SelectSeq(Program(cmd), IsWriteStatement)
             IN  /\ Len(ws) = Len(ps)
                 /\ \A i \in 1..Len(ws) : ws[i].req = ps[i].req

C10_Witness ==
    /\ cpc = "done" /\ cmd.method = "async_set_hvac_mode"
    /\ Len(ctrace) = 3
    /\ ctrace[1] = [ev |-> "write", req |-> async_set_aircon_on_off(TRUE)]
    /\ ctrace[2] = [ev |-> "write", req |-> async_set_mode(2)]
    /\ ctrace[3] = [ev |-> "refresh"]

\* C23 as stated: once a write of a command method has been accepted by the controller,
\* the method requests a refresh before it finishes, also when a later write of the
\* method fails; in EZoneClimate.async_set_hvac_mode the mode write comes after the
\* power-on write.
C23_RefreshAfterAcceptedWrite ==
    /\ (cpc \in {"done", "raised"} /\ WritesOf(ctrace) # {}) => RefreshesOf(ctrace) # {}
    /\ \A i \in WritesOf(ctrace) :
          (cmd.method = "async_set_hvac_mode" /\ ctrace[i].req.path = "/setSystemData"
              /\ ctrace[i].req = async_set_mode(Lookup(EZONE_HVAC_MODES, 1, cmd.arg))) =>
                  /\ i = 2
                  /\ ctrace[1] = [ev |-> "write", req |-> async_set_aircon_on_off(TRUE)]

\* C24 as stated: a command whose write fails requests no refresh and ends with the
\* error, and a command that issues no write at all requests no refresh.
C24_NoRefreshWithoutWrite ==
    /\ cpc = "raised" => RefreshesOf(ctrace) = {}
    /\ (cpc = "done" /\ WritesOf(ctrace) = {}) => RefreshesOf(ctrace) = {}

\* the calls that find nothing to write
NoValue ==
    \/ cmd.method \in {"async_set_cover_position", "async_set_temperature"} /\ cmd.arg = -1
    \/ cmd.method = "async_set_fan_mode" /\ Lookup(EZONE_FAN_MODES, 1, cmd.arg) = 0
UnknownHvacMode ==
    /\ cmd.method = "async_set_hvac_mode"
    /\ cmd.arg # "off"
    /\ Lookup(EZONE_HVAC_MODES, 1, cmd.arg) = 0

\* C24 (amended): a command whose write fails requests no refresh and ends with the
\* ApiError of that write; set_cover_position and set_temperature without a value and
\* set_fan_mode with an unknown fan mode issue no write and request no refresh; the one
\* other command without a write, EZoneClimate.async_set_hvac_mode with a mode that is
\* neither off nor in EZONE_HVAC_MODES, still requests a refresh; a command that fails
\* or returns without a refresh request leaves the snapshot as it was.
C24_NoRefreshUnlessHvacMode ==
    [][/\ cpc' = "raised" =>
             /\ cpc = "write"
             /\ wpc = "get"
             /\ RefreshesOf(ctrace') = {}
             /\ Len(ctrace') < Len(SelectSeq(Program(cmd'), IsWriteStatement))
             /\ data' = data
       /\ (cpc' = "done" /\ WritesOf(ctrace') = {}) =>
             /\ NoValue' \/ UnknownHvacMode'
             /\ NoValue' => (ctrace' = <<>> /\ cpc = "idle" /\ data' = data /\ fpc' = fpc)
             /\ UnknownHvacMode' => ctrace' = <<[ev |-> "refresh"]>>
       /\ (cpc' = "done" /\ NoValue') => WritesOf(ctrace') = {}
       /\ cpc = "write" => data' = data]_vars

\* set_cover_position(50) after its write was answered with an error
C24_Witness ==
    /\ cpc = "raised" /\ ctrace = <<>>
    /\ cmd.method = "async_set_cover_position" /\ cmd.arg = 50
    /\ data # NoneData /\ fpc = "idle"

\* the query parameters of a request, as a set of pairs
ParamsOf(req) == {<<req.params[i].key, req.params[i].val>> : i \in 1..Len(req.params)}

\* the GET /setZoneData that set_cover_position is to send for cmd
IsPositionWrite(req) ==
    /\ req.path = "/setZoneData"
    /\ Len(req.params) = Cardinality(ParamsOf(req))
    /\ ParamsOf(req) =
          IF cmd.arg = 0
          THEN {<<"zone", cmd.zone>>, <<"zoneSetting", 0>>}
          ELSE {<<"zone", cmd.zone>>, <<"userPercentSetting", cmd.arg>>, <<"zoneSetting", 1>>}

\* C29: set_cover_position with a position issues exactly one write: for position 0
\* the zone-off command (zoneSetting=0, no userPercentSetting), for a position p > 0
\* userPercentSetting=p together with zoneSetting=1.
C29_PositionIsOneWrite ==
    (cmd.method = "async_set_cover_position" /\ cmd.arg >= 0) =>
        /\ cpc = "write" => (ctrace = <<>> /\ wpc = "get" /\ IsPositionWrite(wreq))
        /\ cpc = "raised" => ctrace = <<>>
        /\ cpc \in {"refresh", "done"} =>
              /\ WritesOf(ctrace) = {1}
              /\ IsPositionWrite(ctrace[1].req)
              /\ cprog = <<>>

\* set_cover_position(50) on zone 1 has written once and requested its refresh
C29_Witness ==
    /\ cpc = "done" /\ cmd = Command("async_set_cover_position", 1, 50)
    /\ Len(ctrace) = 2
    /\ ParamsOf(ctrace[1].req) = {<<"zone", 1>>, <<"userPercentSetting", 50>>, <<"zoneSetting", 1>>}

(* ---- properties of the snapshot ---- *)
\* a refresh ends in this step with a result, which becomes the snapshot
RefreshSucceeds ==
    /\ fpc = "updating" /\ fpc' = "idle"
    /\ aret'.st = "returned"
    /\ data' = aret'.val

\* C11: a command never changes the snapshot: while a command method awaits a write the
\* snapshot and what the cover entities read from it stay as they are, and the snapshot
\* changes only when a refresh ends with a result read from the controller (or when the
\* entry is set up anew with a coordinator that has none yet).
C11_CommandKeepsSnapshot ==
    [][/\ cpc = "write" =>
             /\ data' = data
             /\ \A z \in entities : CoverState(data', z) = CoverState(data, z)
       /\ data' # data =>
             \/ RefreshSucceeds
             \/ spc' = "first_refresh" /\ data' = NoneData]_vars

C11_Witness ==
    /\ cpc = "refresh" /\ fpc = "updating" /\ apc = "zones"
    /\ cmd.method = "async_close_cover"
    /\ ctrace[1] = [ev |-> "write", req |-> async_set_zone_setting(cmd.zone, FALSE)]
    /\ is_open(data, cmd.zone) /\ current_cover_position(data, cmd.zone) = 50

\* C13: the snapshot is replaced as a whole: a new snapshot is the result of the one
\* async_get_all_data call that returns in that step, with the system entry and the zones
\* that call fetched and nothing else; while a refresh is running the snapshot stays
\* as it was.
C13_SnapshotReplacedWhole ==
    [][/\ (data' # data /\ data' # NoneData) =>
             /\ fpc = "updating" /\ fpc' = "idle"
             /\ apc \in {"system", "zones"} /\ apc' = "idle"
             /\ aret' = Returned(data')
             /\ Keys(data') = {"system", "zones"}
             /\ LET zones == Get(data', "zones", PyInt(0))
                IN  IF apc = "zones"
                    THEN /\ Get(data', "system", PyInt(0)) = Get(system_data, "system", EmptyDict)
                         /\ Keys(zones_data) \subseteq Keys(zones)
                         /\ \A key \in Keys(zones) :
                               \/ key = ToString(zone_num)
                               \/ /\ key \in Keys(zones_data)
                                  /\ Get(zones, key, PyInt(0)) = Get(zones_data, key, PyInt(0))
                    ELSE zones = EmptyDict
       /\ (fpc = "updating" /\ fpc' = "updating") => data' = data]_vars

C13_Witness ==
    /\ spc = "loaded" /\ fpc = "idle"
    /\ aret = Returned(data)
    /\ ZonesOf(data) # entities
    /\ ZonesOf(data) # {}

(* ---- properties of the zone count ---- *)
\* the parsed system data is a mapping that carries no numberOfZones
LacksZoneCount(sd) ==
    /\ IsDict(sd)
    /\ IsDict(Get(sd, "system", EmptyDict))
    /\ IsDict(Get(Get(sd, "system", EmptyDict), "unitcontrol", EmptyDict))
    /\ "numberOfZones" \notin Keys(Get(Get(sd, "system", EmptyDict), "unitcontrol", EmptyDict))

\* every system body the controller sends without numberOfZones counts as 0 zones
MissingCountIsZero ==
    \A b \in SystemBodies :
        (ParsedSystem[b].ok /\ LacksZoneCount(ParsedSystem[b].val)) =>
            NumZones(ParsedSystem[b].val) = Ok(0)

\* C18: the zones a refresh attempts are 1..N for the numberOfZones N of the system data
\* fetched by that same call, whatever the snapshot of an earlier refresh says: the zone
\* loop starts at 1, goes up one zone at a time and the call returns after zone N; a call that
\* returns without any zone fetch fetched a count of 0 and returns an empty zones
\* mapping; system data without numberOfZones counts as 0 without error.
C18_ZoneCountReadFresh ==
    [][/\ apc' = "zones" =>
             /\ NumZones(system_data').ok
             /\ num_zones' = NumZones(system_data').val
             /\ zone_num' \in 1..num_zones'
             /\ rop' = "zone" /\ zone' = zone_num'
       /\ (apc = "system" /\ apc' = "zones") => zone_num' = 1
       /\ (apc = "zones" /\ apc' = "zones") =>
             /\ zone_num' \in {zone_num, zone_num + 1}
             /\ zone_num' = zone_num + 1 => (rpc' = "get" /\ count' = 0)
             /\ system_data' = system_data
             /\ num_zones' = num_zones
       /\ (fpc = "updating" /\ fpc' = "idle" /\ aret'.st = "returned") =>
             /\ NumZones(aret'.val).ok
             /\ IF apc = "zones"
                THEN /\ zone_num = num_zones
                     /\ NumZones(aret'.val).val = num_zones
                     /\ Get(aret'.val, "system", PyInt(0)) = Get(system_data, "system", EmptyDict)
                ELSE /\ NumZones(aret'.val).val = 0
                     /\ Get(aret'.val, "zones", PyInt(0)) = EmptyDict
       /\ MissingCountIsZero]_vars

\* a later refresh is fetching the last of a number of zones that differs from the
\* number the snapshot of the refresh before it was built from
C18_Witness ==
    /\ spc = "loaded" /\ fpc = "updating" /\ fkind = "interval"
    /\ apc = "zones" /\ zone_num = num_zones
    /\ data # NoneData /\ NumZones(data).ok
    /\ NumZones(data).val # num_zones

(* ---- properties of the XML normaliser ---- *)
\* the root element of the document a finished read has normalised
Normalised == rpc = "returned" /\ rop = "system" /\ reqs[Len(reqs)].resp.body.wellformed
Root == reqs[Len(reqs)].resp.body.root
TagsOf(children) == {children[i].tag : i \in 1..Len(children)}
\* the children with tag t, in document order
Occurrences(children, t) == SelectSeq(children, LAMBDA c : c.tag = t)

\* C19: for a parent element, a tag that occurs once among its children is mapped to
\* that child's value itself, and a tag that occurs k >= 2 times to the list of the k
\* children's values in document order.
C19_RepeatedTagsBecomeList ==
    (Normalised /\ Len(Root.children) >= 1) =>
        /\ IsDict(rret.val)
        /\ Keys(rret.val) = TagsOf(Root.children)
        /\ \A t \in TagsOf(Root.children) :
              LET occ == Occurrences(Root.children, t)
                  values == [i \in 1..Len(occ) |-> xml_to_dict(occ[i])]
              IN  IF Len(occ) = 1
                  THEN Get(rret.val, t, PyInt(0)) = values[1]
                  ELSE Get(rret.val, t, PyInt(0)) = PyList(values)

\* tag a occurs twice around one b, with different values
C19_Witness ==
    /\ Normalised
    /\ Len(Root.children) = 3
    /\ Root.children[1].tag = "a" /\ Root.children[2].tag = "b" /\ Root.children[3].tag = "a"
    /\ Get(rret.val, "a", PyInt(0)) = PyList(<<PyStr(<<"1">>), PyStr(<<"2">>)>>)
    /\ Get(rret.val, "b", PyInt(0)) = PyStr(<<"1">>)

\* the text between the first and the last character of s that are not whitespace
IsTrimmed(s, t) ==
    \E i, j \in 1..Len(s) :
        /\ i <= j
        /\ t = SubSeq(s, i, j)
        /\ s[i] \notin Whitespace /\ s[j] \notin Whitespace
        /\ \A n \in 1..Len(s) : (n < i \/ n > j) => s[n] \in Whitespace

\* C20: an element without children whose trimmed text is not empty is normalised to
\* exactly that trimmed text; an element with children is normalised to a mapping keyed
\* by the tags of its children, whatever its text.
C20_LeafTextOrMapping ==
    Normalised =>
        /\ (Len(Root.children) = 0 /\ \E n \in 1..Len(Root.text) : Root.text[n] \notin Whitespace) =>
              /\ IsStr(rret.val)
              /\ IsTrimmed(Root.text, rret.val.s)
        /\ Len(Root.children) >= 1 =>
              /\ IsDict(rret.val)
              /\ Keys(rret.val) = TagsOf(Root.children)

\* a parent whose own text is not blank, with a leaf a whose text is padded and a
\* child b that is such a parent too
C20_Witness ==
    /\ Normalised
    /\ Root.text = <<" ", "x", " ", "y", " ">>
    /\ Len(Root.children) = 2
    /\ Root.children[1] = Elem("a", <<" ", "2">>, <<>>)
    /\ Root.children[2].text = <<"t">>
    /\ rret.val = PyDict(<<[key |-> "a", val |-> PyStr(<<"2">>)],
                          [key |-> "b",
                           val |-> PyDict(<<[key |-> "c",
                                             val |-> PyList(<<PyStr(<<"3">>), PyStr(<<"4">>)>>)]>>)]>>)

(* ---- properties of the cover entity ---- *)
\* C21: whenever the snapshot holds setting "0" for the zone of a cover entity, the
\* entity reads is_closed true and is_open false, whatever userPercentSetting the same
\* snapshot holds for that zone.
C21_ClosedBySettingAlone ==
    data # NoneData =>
        \A z \in entities :
            Get(zone_data(data, z), "setting", PyInt(0)) = PyStr(<<"0">>) =>
                /\ is_closed(data, z)
                /\ ~is_open(data, z)

\* a zone that is off while its percent still reads 50
C21_Witness ==
    /\ spc = "loaded" /\ data # NoneData
    /\ \E z \in entities :
          /\ Get(zone_data(data, z), "setting", PyInt(0)) = PyStr(<<"0">>)
          /\ Get(zone_data(data, z), "userPercentSetting", PyInt(0)) = PyStr(<<"5", "0">>)
          /\ current_cover_position(data, z) = 50
          /\ is_closed(data, z)

\* what a cover entity reads when the snapshot has nothing for its zone
CoverDefaults == [position |-> 0, is_closed |-> TRUE, is_open |-> FALSE]

\* the refresh that ends in this step has left zone z behind without a result: its read
\* failed, or the controller advertised fewer zones
FetchFailedEarlier(z) ==
    \/ apc = "system"
    \/ apc = "zones" /\ z # zone_num /\ ToString(z) \notin Keys(zones_data)

\* C28: when a successful refresh leaves out a zone the snapshot before it held, nothing
\* of the zone's earlier state is kept: the new snapshot has no entry for the zone, and
\* its cover entity reads closed, not open and position 0, whatever it read before.
C28_OmittedZoneReadsClosed ==
    [][\A z \in entities :
          (data # NoneData /\ z \in ZonesOf(data) /\ RefreshSucceeds) =>
              /\ FetchFailedEarlier(z) => ToString(z) \notin Keys(Get(data', "zones", EmptyDict))
              /\ ToString(z) \notin Keys(Get(data', "zones", EmptyDict)) =>
                    /\ zone_data(data', z) = EmptyDict
                    /\ CoverState(data', z) = CoverDefaults]_vars

\* zone 1, which an earlier snapshot held, is missing from the snapshot of the last,
\* successful refresh, and its cover entity reads closed
C28_Witness ==
    /\ spc = "loaded" /\ fpc = "idle" /\ last_update_success
    /\ aret = Returned(data)
    /\ 1 \in entities /\ 1 \notin ZonesOf(data) /\ 2 \in ZonesOf(data)
    /\ CoverState(data, 1) = CoverDefaults

(* ---- properties of the polling loop ---- *)
\* C14: after a failed refresh the polling goes on: another refresh is started, and
\* once the controller answers again a refresh succeeds and its result becomes the
\* snapshot.
C14_PollingContinues ==
    /\ (spc = "loaded" /\ fpc = "idle" /\ ~last_update_success) ~> (fpc = "updating")
    /\ (spc = "loaded" /\ ~last_update_success)
          ~> (spc = "loaded" /\ last_update_success /\ aret = Returned(data))

C14_Witness ==
    /\ spc = "loaded" /\ data # NoneData /\ ~last_update_success
    /\ fpc = "updating" /\ fkind = "interval" /\ apc = "zones"
    /\ faults = MaxFaults

====
